---- MODULE Spec2Model ----
(***************************************************************************)
(* A model of sdx_html_to_pdf.py: the link extractor, the page renderer,   *)
(* the bookmark builder and the __main__ driver.                           *)
(*                                                                         *)
(* Python strings are sequences of one-character strings, so that lower(), *)
(* "in", startswith(), split("#") and f-string formatting are computed.    *)
(* None is the value NoneValue.                                            *)
(***************************************************************************)
EXTENDS Integers, Sequences, FiniteSets, TLC

VARIABLES
    pc,               \* the driver's position
    temp_css_file,    \* the global: "None" or the path of the style file
    css_exists,       \* whether the style file is on disk
    css_created,      \* how many times the style file was created
    css_removed,      \* how many times it was removed
    site,             \* the position of the loop over target_urls
    site_log,         \* how each site begun so far ended, in order
    root_html,        \* the root page fetched for the site
    all_links,        \* the ordered link list of the site
    page,             \* the position of the loop over all_links
    merger,           \* the page counts of the chapters appended to the PdfMerger
    bookmarks,        \* the (title, page number) pairs recorded
    current_page,     \* the running page counter
    outline,          \* the outline items added to the PdfMerger
    bookmark_errors,  \* the positions of bookmarks whose exception was caught
    written,          \* the output files written
    render_log        \* the last page handled: url, what pdfkit did, the value returned, the outcome

vars == <<pc, temp_css_file, css_exists, css_created, css_removed, site, site_log,
          root_html, all_links, page, merger, bookmarks, current_page,
          outline, bookmark_errors, written, render_log>>

(***************************************************************************)
(* Bounds of the model.                                                    *)
(***************************************************************************)
MaxAnchors == 2
MaxPages == 3

(***************************************************************************)
(* String literals of the program and of the inputs.                       *)
(***************************************************************************)
NoneValue == <<"None">>

SDXPY_URL == <<"h", "t", "t", "p", "s", ":", "/", "/", "t", "h", "i", "r", "d", "-", "b", "i", "t", ".", "c", "o", "m", "/", "s", "d", "x", "p", "y", "/">>
SDXJS_URL == <<"h", "t", "t", "p", "s", ":", "/", "/", "t", "h", "i", "r", "d", "-", "b", "i", "t", ".", "c", "o", "m", "/", "s", "d", "x", "j", "s", "/">>
target_urls == << <<SDXPY_URL, "sdxpy.pdf">>, <<SDXJS_URL, "sdxjs.pdf">> >>

HOME == <<"H", "o", "m", "e">>
ZIP == <<"z", "i", "p">>
INTRODUCTION == <<"i", "n", "t", "r", "o", "d", "u", "c", "t", "i", "o", "n">>
CONCLUSION == <<"c", "o", "n", "c", "l", "u", "s", "i", "o", "n">>
CHAPTER == <<"C", "h", "a", "p", "t", "e", "r", " ">>
COLON == <<":", " ">>

UpperLetters == <<"A", "B", "C", "D", "E", "F", "G", "H", "I", "J", "K", "L", "M", "N", "O", "P", "Q", "R", "S", "T", "U", "V", "W", "X", "Y", "Z">>
LowerLetters == <<"a", "b", "c", "d", "e", "f", "g", "h", "i", "j", "k", "l", "m", "n", "o", "p", "q", "r", "s", "t", "u", "v", "w", "x", "y", "z">>
Digits == <<"0", "1", "2", "3", "4", "5", "6", "7", "8", "9">>

\* Inputs: chapter titles, hrefs and anchor texts.
T_Introduction == <<"I", "n", "t", "r", "o", "d", "u", "c", "t", "i", "o", "n">>
T_Intro == <<"I", "n", "t", "r", "o">>
T_Middle == <<"M", "i", "d", "d", "l", "e">>
T_Conclusion == <<"C", "o", "n", "c", "l", "u", "s", "i", "o", "n">>

H_a == <<"a", "/">>
H_afrag == <<"a", "/", "#", "s">>
H_azipfrag == <<"a", "/", "#", "z", "i", "p">>
H_zip == <<"b", ".", "z", "i", "p">>
H_frag == <<"#", "t", "o", "p">>
H_js == <<"/", "s", "d", "x", "j", "s", "/">>
H_ext == <<"h", "t", "t", "p", "s", ":", "/", "/", "x", ".", "o", "r", "g", "/">>
X_A == <<"A">>
X_sp == <<" ">>

(***************************************************************************)
(* str operations.                                                         *)
(***************************************************************************)
Range(s) == {s[i] : i \in 1..Len(s)}

\* str.lower() on one character
LowerChar(c) ==
    IF \E i \in 1..Len(UpperLetters) : UpperLetters[i] = c
    THEN LowerLetters[CHOOSE i \in 1..Len(UpperLetters) : UpperLetters[i] = c]
    ELSE c

StrLower(s) == [i \in 1..Len(s) |-> LowerChar(s[i])]

\* sub in s
Contains(s, sub) ==
    \E i \in 1..(Len(s) - Len(sub) + 1) : SubSeq(s, i, i + Len(sub) - 1) = sub

\* s.startswith(p)
StartsWith(s, p) == Len(p) <= Len(s) /\ SubSeq(s, 1, Len(p)) = p

\* the index of the first character of s that is in cs, Len(s)+1 when none is
FirstOf(s, cs) ==
    IF \E i \in 1..Len(s) : s[i] \in cs
    THEN CHOOSE i \in 1..Len(s) : s[i] \in cs /\ \A k \in 1..(i - 1) : s[k] \notin cs
    ELSE Len(s) + 1

\* s.split("#")[0]
SplitHash0(s) == SubSeq(s, 1, FirstOf(s, {"#"}) - 1)

\* str.strip() of whitespace
Strip(s) ==
    IF \A i \in 1..Len(s) : s[i] = " " THEN <<>>
    ELSE LET a == CHOOSE i \in 1..Len(s) : s[i] # " " /\ \A k \in 1..(i - 1) : s[k] = " "
             b == CHOOSE i \in 1..Len(s) : s[i] # " " /\ \A k \in (i + 1)..Len(s) : s[k] = " "
         IN SubSeq(s, a, b)

\* f"{n}" for a natural number
RECURSIVE IntToStr(_)
IntToStr(n) ==
    IF n < Len(Digits) THEN <<Digits[n + 1]>>
    ELSE IntToStr(n \div Len(Digits)) \o <<Digits[(n % Len(Digits)) + 1]>>

(***************************************************************************)
(* urllib.parse on the URL forms of the inputs: absolute URLs with an      *)
(* authority, absolute paths, relative paths without dot segments and      *)
(* fragment-only references.                                               *)
(***************************************************************************)
SchemeChars == Range(UpperLetters) \cup Range(LowerLetters) \cup Range(Digits) \cup {"+", "-", "."}

\* the length of the scheme of s, 0 when s has none
SchemeLen(s) ==
    LET i == FirstOf(s, {":"})
    IN IF i > 1 /\ i <= Len(s) /\ \A k \in 1..(i - 1) : s[k] \in SchemeChars
       THEN i - 1 ELSE 0

AfterScheme(s) == IF SchemeLen(s) > 0 THEN SubSeq(s, SchemeLen(s) + 2, Len(s)) ELSE s

HasAuthority(r) == Len(r) >= 2 /\ r[1] = "/" /\ r[2] = "/"

\* urlparse(s).netloc
Netloc(s) ==
    LET r == AfterScheme(s)
    IN IF HasAuthority(r)
       THEN LET a == SubSeq(r, 3, Len(r)) IN SubSeq(a, 1, FirstOf(a, {"/", "?", "#"}) - 1)
       ELSE <<>>

\* scheme://netloc of an absolute URL
Origin(s) == SubSeq(s, 1, SchemeLen(s) + 3 + Len(Netloc(s)))

\* the URL up to the last "/" of its path
BaseDir(s) ==
    LET p == SubSeq(s, 1, FirstOf(s, {"?", "#"}) - 1)
        last == CHOOSE i \in 1..Len(p) : p[i] = "/" /\ \A k \in (i + 1)..Len(p) : p[k] # "/"
    IN SubSeq(p, 1, last)

\* urljoin(base, url)
urljoin(base, url) ==
    IF url = <<>> THEN base
    ELSE IF SchemeLen(url) > 0 THEN url
    ELSE IF HasAuthority(url) THEN SubSeq(base, 1, SchemeLen(base) + 1) \o url
    ELSE IF url[1] = "/" THEN Origin(base) \o url
    ELSE IF url[1] = "#" THEN SplitHash0(base) \o url
    ELSE BaseDir(base) \o url

(***************************************************************************)
(* get_internal_links.  A page is [has_sidebar, sidebar, outside]: whether *)
(* div.sidebar exists, its anchors in document order, and the anchors      *)
(* outside it.  An anchor is [href, text]; href is NoneValue when the      *)
(* attribute is absent.                                                    *)
(***************************************************************************)
\* urlparse(full_url).netloc == base_domain and full_url.startswith(base_url)
IsInternal(base_url, full_url) ==
    Netloc(full_url) = Netloc(base_url) /\ StartsWith(full_url, base_url)

\* IsNewLink without the test for a pair already in the list
IsNewLinkNoDedupe(url, title, links) == ~Contains(url, ZIP)

\* IsNewLink without the test for "zip"
IsNewLinkNoZip(url, title, links) ==
    \A k \in 1..Len(links) : links[k] # <<url, title>>

\* (url, title) not in links and "zip" not in url
IsNewLink(url, title, links) ==
    (\A k \in 1..Len(links) : links[k] # <<url, title>>) /\ ~Contains(url, ZIP)

\* a.get_text(strip=True) or url
TitleOf(text, url) == IF Strip(text) # <<>> THEN Strip(text) ELSE url

\* the body of the loop over the anchors
RECURSIVE CollectLinks(_, _, _, _)
CollectLinks(base_url, anchors, k, links) ==
    IF k > Len(anchors) THEN links
    ELSE LET full_url == urljoin(base_url, anchors[k].href)
             url == SplitHash0(full_url)
             title == TitleOf(anchors[k].text, url)
         IN IF IsInternal(base_url, full_url) /\ IsNewLink(url, title, links)
            THEN CollectLinks(base_url, anchors, k + 1, Append(links, <<url, title>>))
            ELSE CollectLinks(base_url, anchors, k + 1, links)

\* sidebar.find_all("a", href=True)
FindAllWithHref(anchors) == SelectSeq(anchors, LAMBDA a : a.href # NoneValue)

get_internal_links(base_url, html) ==
    IF html.has_sidebar
    THEN CollectLinks(base_url, FindAllWithHref(html.sidebar), 1, <<>>)
    ELSE <<>>

\* all_links = [(base_url, "Home")] + [lt for lt in link_tuples if lt[0] != base_url]
BuildAllLinks(base_url, link_tuples) ==
    << <<base_url, HOME>> >> \o SelectSeq(link_tuples, LAMBDA lt : lt[1] # base_url)

(***************************************************************************)
(* render_page_to_pdf.  pdfkit.from_url either raises or returns the PDF   *)
(* of the page: wk is [ok, pages].  The function returns None or a BytesIO *)
(* holding a PDF of `pages` pages; pages = 0 is the empty buffer.          *)
(***************************************************************************)
NonePdf == [kind |-> "None", pages |-> 0]
BytesIO(n) == [kind |-> "BytesIO", pages |-> n]

\* bool(x): None is false, a BytesIO object is true whatever it holds
Truthy(x) == x.kind # "None"

render_page_to_pdf(page_url, wk) ==
    IF page_url = <<>> \/ page_url = NoneValue THEN NonePdf
    ELSE IF wk.ok THEN BytesIO(wk.pages)
    ELSE BytesIO(0)

\* def render_page_to_pdf(page_url, config=None)
render_page_to_pdf_params == <<"page_url", "config">>

\* Python's binding of a call's arguments to the parameters: "TypeError" when
\* there are too many positional arguments, when a keyword argument names a
\* parameter a positional argument has filled, or names no parameter
BindArguments(params, positional, keywords) ==
    IF Len(positional) > Len(params) THEN "TypeError"
    ELSE IF \E k \in 1..Len(positional) : params[k] \in keywords THEN "TypeError"
    ELSE IF keywords \subseteq Range(params) THEN "ok"
    ELSE "TypeError"

\* a call of render_page_to_pdf with the positional arguments args and config=
\* given by keyword: [raised, value, wk]
CallRender(args, wk) ==
    IF BindArguments(render_page_to_pdf_params, args, {"config"}) = "ok"
    THEN [raised |-> FALSE, value |-> render_page_to_pdf(args[1], wk),
          wk |-> IF args[1] = <<>> \/ args[1] = NoneValue THEN "not_run"
                 ELSE IF wk.ok THEN "rendered" ELSE "raised"]
    ELSE [raised |-> TRUE, value |-> NonePdf, wk |-> "not_run"]

\* pdf_bytes = render_page_to_pdf(url, title, config=config)
CallInDriver(url, title, wk) == CallRender(<<url, title>>, wk)

(***************************************************************************)
(* The body of the page loop, after the call.                              *)
(***************************************************************************)
\* RecordChapter with the bookmark recorded after the counter is advanced
RecordChapterAfterCount(title, num_pages, m, b, cp) ==
    [merger |-> Append(m, num_pages),
     bookmarks |-> Append(b, <<title, cp + num_pages>>),
     current_page |-> cp + num_pages,
     status |-> "added"]

\* merger.append(pdf_bytes) ... bookmarks.append((title, current_page));
\* current_page += num_pages
RecordChapter(title, num_pages, m, b, cp) ==
    [merger |-> Append(m, num_pages),
     bookmarks |-> Append(b, <<title, cp>>),
     current_page |-> cp + num_pages,
     status |-> "added"]

\* what the loop does with the outcome of the call: an exception of the call,
\* or of merger.append on a buffer that holds no PDF, is caught and the page
\* left out; a false value is reported and the page left out
ProcessPage(call, title, m, b, cp) ==
    IF call.raised
    THEN [merger |-> m, bookmarks |-> b, current_page |-> cp, status |-> "error"]
    ELSE IF ~Truthy(call.value)
    THEN [merger |-> m, bookmarks |-> b, current_page |-> cp, status |-> "failed"]
    ELSE IF call.value.pages = 0
    THEN [merger |-> m, bookmarks |-> b, current_page |-> cp, status |-> "error"]
    ELSE RecordChapter(title, call.value.pages, m, b, cp)

(***************************************************************************)
(* add_bookmarks_with_chapters.  reject is the set of positions at which   *)
(* merger.add_outline_item raises.  The result is [outline, errors]: the   *)
(* items added, and the positions whose exception was caught.              *)
(***************************************************************************)
\* FormatTitle with the flag cleared at "conclusion" before the title is formatted
FormatTitleClearFirst(title, chapter_num, in_chapter_section) ==
    LET sec == (in_chapter_section \/ Contains(StrLower(title), INTRODUCTION))
               /\ ~Contains(StrLower(title), CONCLUSION)
    IN [formatted |-> IF sec THEN CHAPTER \o IntToStr(chapter_num) \o COLON \o title
                      ELSE title,
        chapter_num |-> IF sec THEN chapter_num + 1 ELSE chapter_num,
        in_chapter_section |-> sec]

\* FormatTitle with the chapter section entered at any title containing "intro"
FormatTitleAtIntro(title, chapter_num, in_chapter_section) ==
    LET sec == in_chapter_section \/ Contains(StrLower(title), SubSeq(INTRODUCTION, 1, Len(T_Intro)))
    IN [formatted |-> IF sec THEN CHAPTER \o IntToStr(chapter_num) \o COLON \o title
                      ELSE title,
        chapter_num |-> IF sec THEN chapter_num + 1 ELSE chapter_num,
        in_chapter_section |-> IF Contains(StrLower(title), CONCLUSION) THEN FALSE ELSE sec]

\* the three steps on the title: [formatted, chapter_num, in_chapter_section]
FormatTitle(title, chapter_num, in_chapter_section) ==
    LET sec == in_chapter_section \/ Contains(StrLower(title), INTRODUCTION)
    IN [formatted |-> IF sec THEN CHAPTER \o IntToStr(chapter_num) \o COLON \o title
                      ELSE title,
        chapter_num |-> IF sec THEN chapter_num + 1 ELSE chapter_num,
        in_chapter_section |-> IF Contains(StrLower(title), CONCLUSION) THEN FALSE ELSE sec]

\* AfterBookmarkError with the exception ending the loop
AfterBookmarkErrorAbort(bms, j) == Len(bms) + 1

\* the position the loop goes on with after the except clause at position j
AfterBookmarkError(bms, j) == j + 1

RECURSIVE AddBookmarksFrom(_, _, _, _, _, _)
AddBookmarksFrom(bms, j, chapter_num, in_chapter_section, acc, reject) ==
    IF j > Len(bms) THEN acc
    ELSE IF bms[j][1] = NoneValue
    THEN \* title.lower() raises before anything is assigned
         AddBookmarksFrom(bms, AfterBookmarkError(bms, j), chapter_num, in_chapter_section,
                          [acc EXCEPT !.errors = @ \cup {j}], reject)
    ELSE LET f == FormatTitle(bms[j][1], chapter_num, in_chapter_section)
         IN IF j \in reject
            THEN AddBookmarksFrom(bms, AfterBookmarkError(bms, j), f.chapter_num,
                                  f.in_chapter_section,
                                  [acc EXCEPT !.errors = @ \cup {j}], reject)
            ELSE AddBookmarksFrom(bms, j + 1, f.chapter_num, f.in_chapter_section,
                                  [acc EXCEPT !.outline = Append(@, <<f.formatted, bms[j][2]>>)],
                                  reject)

add_bookmarks_with_chapters(bms, reject) ==
    AddBookmarksFrom(bms, 1, 1, FALSE, [outline |-> <<>>, errors |-> {}], reject)

\* SaveMerged without the test of merger.pages
SaveMergedAlways(m, write_ok) == IF write_ok THEN "saved" ELSE "save_error"

\* if merger.pages: write the file (which may fail) else warn
SaveMerged(m, write_ok) ==
    IF Len(m) > 0 THEN (IF write_ok THEN "saved" ELSE "save_error") ELSE "no_pages"

(***************************************************************************)
(* The inputs: what the environment answers.                               *)
(***************************************************************************)
HrefPool == {H_a, H_afrag, H_azipfrag, H_zip, H_frag, H_js, H_ext, NoneValue}
TextPool == {X_A, X_sp}
Anchors == [href : HrefPool, text : TextPool]

SeqsUpTo(S, n) == UNION {[1..k -> S] : k \in 0..n}

EmptyPage == [has_sidebar |-> FALSE, sidebar |-> <<>>, outside |-> <<>>]
OutsideAnchors == {<<>>, <<[href |-> H_a, text |-> X_A]>>}
Pages ==
    {[has_sidebar |-> TRUE, sidebar |-> a, outside |-> o] :
        a \in SeqsUpTo(Anchors, MaxAnchors), o \in OutsideAnchors}
    \cup {[has_sidebar |-> FALSE, sidebar |-> <<>>, outside |-> o] : o \in OutsideAnchors}

PageCounts == {2, 3, 5}
PdfkitOutcomes == {[ok |-> FALSE, pages |-> 0]} \cup {[ok |-> TRUE, pages |-> n] : n \in PageCounts}

NoRender == [url |-> <<>>, wk |-> "not_run", raised |-> FALSE, value |-> NonePdf, status |-> "none"]

(***************************************************************************)
(* The driver, __main__.                                                   *)
(***************************************************************************)
Init ==
    /\ pc = "start"
    /\ temp_css_file = "None"
    /\ css_exists = FALSE
    /\ css_created = 0
    /\ css_removed = 0
    /\ site = 1
    /\ site_log = <<>>
    /\ root_html = EmptyPage
    /\ all_links = <<>>
    /\ page = 1
    /\ merger = <<>>
    /\ bookmarks = <<>>
    /\ current_page = 0
    /\ outline = <<>>
    /\ bookmark_errors = {}
    /\ written = {}
    /\ render_log = NoRender

\* config = check_wkhtmltopdf(): exit(1) when the executable is not found
check_wkhtmltopdf ==
    /\ pc = "start"
    /\ \E found \in BOOLEAN : pc' = IF found THEN "create_css" ELSE "exit"
    /\ UNCHANGED <<temp_css_file, css_exists, css_created, css_removed, site, site_log,
                   root_html, all_links, page, merger, bookmarks, current_page,
                   outline, bookmark_errors, written, render_log>>

create_temp_css_file ==
    /\ pc = "create_css"
    /\ temp_css_file' = "tmp.css"
    /\ css_exists' = TRUE
    /\ css_created' = css_created + 1
    /\ pc' = "site_loop"
    /\ UNCHANGED <<css_removed, site, site_log, root_html, all_links, page, merger,
                   bookmarks, current_page, outline, bookmark_errors, written, render_log>>

\* for base_url, pdf_name in target_urls: merger = PdfMerger(); bookmarks = [];
\* current_page = 0
NewSite ==
    /\ merger' = <<>>
    /\ bookmarks' = <<>>
    /\ current_page' = 0
    /\ outline' = <<>>
    /\ bookmark_errors' = {}

\* the site ends without a page loop: its log entry, and the next site
EndSiteEarly(how) ==
    /\ site_log' = Append(site_log, how)
    /\ site' = site + 1
    /\ pc' = "site_loop"
    /\ UNCHANGED <<temp_css_file, css_exists, css_created, css_removed, root_html,
                   all_links, page, written, render_log>>

\* fetch_html returns None (or an empty text): "skipping...", continue
SiteFetchFailed ==
    /\ pc = "site_loop"
    /\ site <= Len(target_urls)
    /\ NewSite
    /\ EndSiteEarly("fetch_failed")

\* an exception raised inside the site's try block is caught at the site boundary
SiteException ==
    /\ pc = "site_loop"
    /\ site <= Len(target_urls)
    /\ NewSite
    /\ EndSiteEarly("exception")

\* the root page is fetched and the ordered link list built
SiteLinks ==
    /\ pc = "site_loop"
    /\ site <= Len(target_urls)
    /\ NewSite
    /\ \E html \in Pages :
        /\ root_html' = html
        /\ all_links' = BuildAllLinks(target_urls[site][1],
                                      get_internal_links(target_urls[site][1], html))
    /\ page' = 1
    /\ pc' = "page_loop"
    /\ UNCHANGED <<temp_css_file, css_exists, css_created, css_removed, site, site_log,
                   written, render_log>>

\* the effect of one page on the site's state
PageEffects(url, title, call) ==
    LET r == ProcessPage(call, title, merger, bookmarks, current_page)
    IN /\ merger' = r.merger
       /\ bookmarks' = r.bookmarks
       /\ current_page' = r.current_page
       /\ render_log' = [url |-> url, wk |-> call.wk, raised |-> call.raised,
                         value |-> call.value, status |-> r.status]

\* one iteration of: for i, (url, title) in enumerate(all_links, 1)
PageStep ==
    /\ pc = "page_loop"
    /\ page <= Len(all_links)
    /\ \E wk \in PdfkitOutcomes :
        PageEffects(all_links[page][1], all_links[page][2],
                    CallInDriver(all_links[page][1], all_links[page][2], wk))
    /\ page' = page + 1
    /\ UNCHANGED <<pc, temp_css_file, css_exists, css_created, css_removed, site, site_log,
                   root_html, all_links, outline, bookmark_errors, written>>

\* add_bookmarks_with_chapters(merger, bookmarks), then the write of the file
FinishEffects(reject, write_ok) ==
    LET added == add_bookmarks_with_chapters(bookmarks, reject)
        how == SaveMerged(merger, write_ok)
    IN /\ outline' = added.outline
       /\ bookmark_errors' = added.errors
       /\ written' = IF how = "saved" THEN written \cup {target_urls[site][2]} ELSE written
       /\ site_log' = Append(site_log, how)

SiteFinish ==
    /\ pc = "page_loop"
    /\ page > Len(all_links)
    /\ \E reject \in SUBSET (1..Len(bookmarks)), write_ok \in BOOLEAN :
        FinishEffects(reject, write_ok)
    /\ site' = site + 1
    /\ pc' = "site_loop"
    \* the locals of the finished site are dead: the next site assigns them anew
    /\ root_html' = EmptyPage
    /\ all_links' = <<>>
    /\ page' = 1
    /\ render_log' = NoRender
    /\ UNCHANGED <<temp_css_file, css_exists, css_created, css_removed,
                   merger, bookmarks, current_page>>

\* an exception raised in the loop over target_urls outside the site's try
\* block leaves the loop: only the outer finally is left to run
SiteLoopRaises ==
    /\ pc = "site_loop"
    /\ site <= Len(target_urls)
    /\ pc' = "unwinding"
    /\ UNCHANGED <<temp_css_file, css_exists, css_created, css_removed, site, site_log,
                   root_html, all_links, page, merger, bookmarks, current_page, outline,
                   bookmark_errors, written, render_log>>

\* cleanup_temp_css_file leaving the file on disk
cleanup_keeps_file ==
    /\ pc \in {"site_loop", "unwinding"}
    /\ pc = "site_loop" => site > Len(target_urls)
    /\ pc' = IF pc = "unwinding" THEN "crashed" ELSE "done"
    /\ UNCHANGED <<temp_css_file, css_exists, css_created, css_removed, site, site_log,
                   root_html, all_links, page, merger, bookmarks, current_page, outline,
                   bookmark_errors, written, render_log>>

\* finally: cleanup_temp_css_file(), after the loop or while an exception unwinds
cleanup_temp_css_file ==
    /\ pc \in {"site_loop", "unwinding"}
    /\ pc = "site_loop" => site > Len(target_urls)
    /\ IF temp_css_file # "None" /\ css_exists
       THEN css_exists' = FALSE /\ css_removed' = css_removed + 1
       ELSE UNCHANGED <<css_exists, css_removed>>
    /\ pc' = IF pc = "unwinding" THEN "crashed" ELSE "done"
    /\ UNCHANGED <<temp_css_file, css_created, site, site_log, root_html, all_links, page,
                   merger, bookmarks, current_page, outline, bookmark_errors, written,
                   render_log>>

Next ==
    \/ check_wkhtmltopdf
    \/ create_temp_css_file
    \/ SiteFetchFailed
    \/ SiteException
    \/ SiteLinks
    \/ PageStep
    \/ SiteFinish
    \/ SiteLoopRaises
    \/ cleanup_temp_css_file

Spec == Init /\ [][Next]_vars

(***************************************************************************)
(* The assembler on its own: render_page_to_pdf called as it is declared,  *)
(* render_page_to_pdf(url, config=config), the body of the page loop       *)
(* applied to what it returns, then add_bookmarks_with_chapters and the    *)
(* write, for one site with the style file in place.  The chapters' URLs,  *)
(* titles and renderer outcomes are inputs.                                *)
(***************************************************************************)
AssembleTitles == {T_Intro, T_Middle, T_Conclusion}
UrlPool == {<<>>, SDXPY_URL}

\* the state of a site whose page loop has recorded the bookmarks b of the
\* chapters with page counts m
InSite(b, m, cp) ==
    /\ pc = "assemble"
    /\ temp_css_file = "tmp.css"
    /\ css_exists = TRUE
    /\ css_created = 1
    /\ css_removed = 0
    /\ site = 1
    /\ site_log = <<>>
    /\ root_html = EmptyPage
    /\ all_links = <<>>
    /\ page = Len(b) + 1
    /\ merger = m
    /\ bookmarks = b
    /\ current_page = cp
    /\ outline = <<>>
    /\ bookmark_errors = {}
    /\ written = {}
    /\ render_log = NoRender

InitAssemble == InSite(<<>>, <<>>, 0)

AssembleStep ==
    /\ pc = "assemble"
    /\ page <= MaxPages
    /\ \E url \in UrlPool, title \in AssembleTitles, wk \in PdfkitOutcomes :
        PageEffects(url, title, CallRender(<<url>>, wk))
    /\ page' = page + 1
    /\ UNCHANGED <<pc, temp_css_file, css_exists, css_created, css_removed, site, site_log,
                   root_html, all_links, outline, bookmark_errors, written>>

AssembleFinish ==
    /\ pc = "assemble"
    /\ \E reject \in SUBSET (1..Len(bookmarks)), write_ok \in BOOLEAN :
        FinishEffects(reject, write_ok)
    /\ pc' = "assembled"
    /\ UNCHANGED <<temp_css_file, css_exists, css_created, css_removed, site, root_html,
                   all_links, page, merger, bookmarks, current_page, render_log>>

NextAssemble == AssembleStep \/ AssembleFinish

SpecAssemble == InitAssemble /\ [][NextAssemble]_vars

(***************************************************************************)
(* add_bookmarks_with_chapters on its own: the bookmark list is an input,  *)
(* any titles (None among them) on chapters of one page each.              *)
(***************************************************************************)
BookmarkTitles == {T_Introduction, T_Intro, T_Middle, T_Conclusion, NoneValue}

InitBookmarks ==
    \E titles \in SeqsUpTo(BookmarkTitles, MaxPages) :
        InSite([j \in 1..Len(titles) |-> <<titles[j], j - 1>>],
               [j \in 1..Len(titles) |-> 1], Len(titles))

NextBookmarks == AssembleFinish

SpecBookmarks == InitBookmarks /\ [][NextBookmarks]_vars

(***************************************************************************)
(* The properties.                                                         *)
(***************************************************************************)
RECURSIVE SumTo(_, _)
SumTo(m, k) == IF k = 0 THEN 0 ELSE SumTo(m, k - 1) + m[k]

TitlesOf(b) == [j \in 1..Len(b) |-> b[j][1]]

\* C1: every bookmark the page loop records carries the sum of the page counts
\* of the chapters appended before it; the first carries 0, the page numbers
\* never decrease, and the counter is the sum of all page counts appended.
C1_BookmarkPageIsPagesBefore ==
    /\ Len(bookmarks) = Len(merger)
    /\ \A j \in 1..Len(bookmarks) : bookmarks[j][2] = SumTo(merger, j - 1)
    /\ Len(bookmarks) > 0 => bookmarks[1][2] = 0
    /\ \A j \in 1..(Len(bookmarks) - 1) : bookmarks[j][2] <= bookmarks[j + 1][2]
    /\ current_page = SumTo(merger, Len(merger))

\* three chapters recorded, with a page left out in between
C1_Witness ==
    /\ pc = "assemble"
    /\ Len(bookmarks) = MaxPages - 1
    /\ page = MaxPages + 1
    /\ bookmarks[Len(bookmarks)][2] > 0

\* C2: a page is left out of the book only when its URL is empty or the
\* renderer failed on it; every other link is appended and bookmarked.
C2_PageOmittedOnlyOnFailure ==
    render_log.status \in {"failed", "error"} =>
        (render_log.url = <<>> \/ render_log.wk = "raised")

(***************************************************************************)
(* add_bookmarks_with_chapters, stated over the whole list.                *)
(***************************************************************************)
IsStr(j) == bookmarks[j][1] # NoneValue
HasIntroduction(j) == IsStr(j) /\ Contains(StrLower(bookmarks[j][1]), INTRODUCTION)
HasConclusion(j) == IsStr(j) /\ Contains(StrLower(bookmarks[j][1]), CONCLUSION)

\* the flag after the "introduction" test of bookmark j: its title has
\* "introduction", or an earlier one has and no title from that one up to
\* the one before j has "conclusion"
FlagAtFormat(j) ==
    \/ HasIntroduction(j)
    \/ \E i \in 1..(j - 1) :
        HasIntroduction(i) /\ \A k \in i..(j - 1) : ~HasConclusion(k)

Numbered(j) == IsStr(j) /\ FlagAtFormat(j)
ChapterNumber(j) == 1 + Cardinality({i \in 1..(j - 1) : Numbered(i)})

Kept == {j \in 1..Len(bookmarks) : j \notin bookmark_errors}
\* the bookmark the k-th outline item was made from
KeptAt(k) == CHOOSE j \in Kept : Cardinality({i \in Kept : i < j}) = k - 1

L_Ch1_Introduction == <<"C", "h", "a", "p", "t", "e", "r", " ", "1", ":", " ", "I", "n", "t", "r", "o", "d", "u", "c", "t", "i", "o", "n">>
L_Ch2_Conclusion == <<"C", "h", "a", "p", "t", "e", "r", " ", "2", ":", " ", "C", "o", "n", "c", "l", "u", "s", "i", "o", "n">>
L_Ch1_Intro == <<"C", "h", "a", "p", "t", "e", "r", " ", "1", ":", " ", "I", "n", "t", "r", "o">>
L_Ch2_Middle == <<"C", "h", "a", "p", "t", "e", "r", " ", "2", ":", " ", "M", "i", "d", "d", "l", "e">>
L_Ch3_Conclusion == <<"C", "h", "a", "p", "t", "e", "r", " ", "3", ":", " ", "C", "o", "n", "c", "l", "u", "s", "i", "o", "n">>

\* C3: each outline item is titled "Chapter k: <title>" exactly when the flag
\* is true after the "introduction" test of its bookmark, and carries the raw
\* title otherwise; k is 1 plus the number of bookmarks numbered before it.
\* A first "Introduction" becomes "Chapter 1: Introduction", a following
\* "Conclusion" is numbered too, and the chapter after it is not.
C3_ChapterNumbering ==
    pc = "assembled" =>
        /\ Len(outline) = Cardinality(Kept)
        /\ \A k \in 1..Len(outline) :
            LET j == KeptAt(k)
            IN outline[k][1] =
                IF Numbered(j)
                THEN CHAPTER \o IntToStr(ChapterNumber(j)) \o COLON \o bookmarks[j][1]
                ELSE bookmarks[j][1]
        /\ (TitlesOf(bookmarks) = <<T_Introduction, T_Conclusion, T_Middle>>
              /\ bookmark_errors = {})
            => TitlesOf(outline) = <<L_Ch1_Introduction, L_Ch2_Conclusion, T_Middle>>

C3_Witness ==
    /\ pc = "assembled"
    /\ TitlesOf(bookmarks) = <<T_Introduction, T_Conclusion, T_Middle>>
    /\ TitlesOf(outline) = <<L_Ch1_Introduction, L_Ch2_Conclusion, T_Middle>>

\* the chapters of the scenario: titles "Intro", "Middle", "Conclusion" with
\* 3, 5 and 2 pages, all rendered and all bookmarks added
C4_Scenario ==
    /\ pc = "assembled"
    /\ TitlesOf(bookmarks) = <<T_Intro, T_Middle, T_Conclusion>>
    /\ merger = <<3, 5, 2>>
    /\ bookmark_errors = {}

\* C4 as claimed: the scenario yields ("Chapter 1: Intro", 0),
\* ("Chapter 2: Middle", 3), ("Chapter 3: Conclusion", 8).
C4_Original ==
    C4_Scenario =>
        outline = << <<L_Ch1_Intro, 0>>, <<L_Ch2_Middle, 3>>, <<L_Ch3_Conclusion, 8>> >>

\* C4: the scenario yields ("Intro", 0), ("Middle", 3), ("Conclusion", 8):
\* "Intro" does not contain "introduction", so the flag is never set.
C4_ScenarioBookmarks ==
    C4_Scenario =>
        outline = << <<T_Intro, 0>>, <<T_Middle, 3>>, <<T_Conclusion, 8>> >>

C4_Witness == C4_Scenario /\ Len(outline) = Len(bookmarks) /\ site_log = <<"saved">>

\* C10: a bookmark whose handling fails is skipped and all the others are
\* still added, in order; the write step of the site runs afterwards.
C10_BookmarkFailureIsSkipped ==
    pc = "assembled" =>
        /\ bookmark_errors \subseteq 1..Len(bookmarks)
        /\ \A j \in 1..Len(bookmarks) : ~IsStr(j) => j \in bookmark_errors
        /\ Len(outline) = Cardinality(Kept)
        /\ \A k \in 1..Len(outline) : outline[k][2] = bookmarks[KeptAt(k)][2]
        /\ Len(site_log) = 1
        /\ site_log[1] \in (IF Len(merger) > 0 THEN {"saved", "save_error"} ELSE {"no_pages"})

\* the first bookmark has no title, a later one is rejected, the last is added
C10_Witness ==
    /\ pc = "assembled"
    /\ Len(bookmarks) = MaxPages
    /\ ~IsStr(1)
    /\ \E j \in bookmark_errors : IsStr(j)
    /\ MaxPages \in Kept
    /\ site_log = <<"saved">>

\* C7: when the renderer fails render_page_to_pdf returns a failure signal and
\* the page is left out with nothing recorded; an empty URL gives a failure
\* signal without the renderer being run.
C7_RenderFailureIsSignalled ==
    /\ render_log.wk = "raised" =>
        (~Truthy(render_log.value) /\ render_log.status \in {"failed", "error"})
    /\ (render_log.status # "none" /\ render_log.url = <<>>) =>
        (~Truthy(render_log.value) /\ render_log.wk = "not_run")

(***************************************************************************)
(* The link list of the site in hand, against the anchors of its root page.*)
(***************************************************************************)
base_url == target_urls[site][1]
SidebarAnchors == IF root_html.has_sidebar THEN root_html.sidebar ELSE <<>>
HasHref(i) == SidebarAnchors[i].href # NoneValue
ResolvedUrl(i) == urljoin(base_url, SidebarAnchors[i].href)
\* the (url, title) pair anchor i stands for
PairOf(i) ==
    <<SplitHash0(ResolvedUrl(i)), TitleOf(SidebarAnchors[i].text, SplitHash0(ResolvedUrl(i)))>>
\* the anchors a link of the list can come from
AnchorsOf(link) == {i \in 1..Len(SidebarAnchors) : HasHref(i) /\ PairOf(i) = link}
FirstAnchorOf(link) == CHOOSE i \in AnchorsOf(link) : \A k \in AnchorsOf(link) : i <= k

\* C5: the link list starts with (base_url, "Home"), holds no pair twice and
\* no other entry with the base URL; every other entry is the pair of a
\* sidebar anchor, on the base's host, prefixed by the base URL and without a
\* fragment; the entries are in the order of their first anchors, and every
\* anchor that passes the tests is in the list.
C5_OrderedLinkList ==
    pc = "page_loop" =>
        /\ Len(all_links) >= 1
        /\ all_links[1] = <<base_url, HOME>>
        /\ \A i, j \in 1..Len(all_links) : i < j => all_links[i] # all_links[j]
        /\ \A k \in 2..Len(all_links) :
            /\ all_links[k][1] # base_url
            /\ AnchorsOf(all_links[k]) # {}
            /\ Netloc(all_links[k][1]) = Netloc(base_url)
            /\ StartsWith(all_links[k][1], base_url)
            /\ "#" \notin Range(all_links[k][1])
        /\ \A j, k \in 2..Len(all_links) :
            j < k => FirstAnchorOf(all_links[j]) < FirstAnchorOf(all_links[k])
        /\ \A i \in 1..Len(SidebarAnchors) :
            (/\ HasHref(i)
             /\ Netloc(ResolvedUrl(i)) = Netloc(base_url)
             /\ StartsWith(ResolvedUrl(i), base_url)
             /\ ~Contains(PairOf(i)[1], ZIP)
             /\ PairOf(i)[1] # base_url)
            => \E k \in 2..Len(all_links) : all_links[k] = PairOf(i)

\* two anchors of the same page (one with a fragment) give one link
C5_Witness ==
    /\ pc = "page_loop"
    /\ Len(SidebarAnchors) = MaxAnchors
    /\ SidebarAnchors[1].href = H_afrag
    /\ SidebarAnchors[MaxAnchors].href = H_a
    /\ \A i \in 1..MaxAnchors : SidebarAnchors[i].text = X_A
    /\ Len(all_links) = 2

\* C6 as claimed: every link of the list comes from an anchor whose resolved
\* URL, urljoin(base_url, href), does not contain "zip".
C6_Original ==
    pc = "page_loop" =>
        \A k \in 2..Len(all_links) :
            \E i \in AnchorsOf(all_links[k]) : ~Contains(ResolvedUrl(i), ZIP)

\* C6: no link of the list has "zip" in its URL, the resolved URL with the
\* fragment stripped; an anchor whose stripped URL contains "zip" adds nothing.
C6_NoZipInLinkUrl ==
    pc = "page_loop" =>
        /\ \A k \in 1..Len(all_links) : ~Contains(all_links[k][1], ZIP)
        /\ \A i \in 1..Len(SidebarAnchors) :
            (HasHref(i) /\ Contains(SplitHash0(ResolvedUrl(i)), ZIP))
            => \A k \in 1..Len(all_links) : all_links[k] # PairOf(i)

\* a .zip link is dropped next to a link that is kept
C6_Witness ==
    /\ pc = "page_loop"
    /\ Len(SidebarAnchors) = MaxAnchors
    /\ SidebarAnchors[1].href = H_zip
    /\ SidebarAnchors[MaxAnchors].href = H_a
    /\ Len(all_links) = 2

C9_StyleFileLifetime ==
    /\ css_created <= 1
    /\ css_removed <= 1
    /\ pc \in {"start", "create_css", "exit"} =>
        (css_created = 0 /\ ~css_exists /\ site_log = <<>> /\ site = 1
         /\ render_log.status = "none")
    /\ pc \in {"site_loop", "page_loop", "unwinding"} =>
        (css_created = 1 /\ css_removed = 0 /\ css_exists)
    /\ pc \in {"done", "crashed"} =>
        (css_created = 1 /\ css_removed = 1 /\ ~css_exists)
    /\ pc = "done" => Len(site_log) = Len(target_urls)

\* the file is gone after a run in which one site raised and one was skipped
C9_Witness ==
    /\ pc = "done"
    /\ site_log = <<"exception", "fetch_failed">>
    /\ css_removed = 1
    /\ ~css_exists

====
